---------------------------- MODULE Spec2Model ----------------------------
(***************************************************************************)
(* MuRaL: the model family of nn_models.py (tensor shapes through the      *)
(* forward passes, the residual block, the fusion of the branch outputs)   *)
(* and the Ray-Tune search driver of run_train_raytune.py.                 *)
(*                                                                         *)
(* Seven state machines share the variables below; each specification        *)
(* drives one of them and leaves the other machines idle:                  *)
(*   SpecForward   Network1.forward / Network2.forward, stage by stage     *)
(*   SpecResBlock  ResBlock.forward / ResBlock2.forward                    *)
(*   SpecFusion    the softmax / average / clamp / log of the outputs      *)
(*   SpecTune      main(): ray.init, tune.run and its trials, ray.shutdown *)
(*   SpecLogUniform  main(): the bounds and samples of tune.loguniform     *)
(*   SpecRuns      two runs of the driver with the same command line       *)
(*   SpecHidden    main(): the sizes of the local hidden layers per trial  *)
(***************************************************************************)
EXTENDS Integers, Sequences, FiniteSets, TLC

VARIABLES
    \* ---- forward pass of Network1 / Network2
    model_no,        \* 1: Network1 (expanded-only), 2: Network2 (local + expanded)
    distal_radius,   \* hyperparameter; the distal tensor has seq_len positions
    distal_order,
    kernel_size,     \* CNN_kernel_size of the trial
    no_of_cat,       \* len(emb_dims)
    no_of_cont,      \* number of continuous features
    pc,              \* index of the next statement of forward()
    err,             \* "none" or the exception that ended forward()
    failed_at,       \* name of the statement that raised
    x_len,           \* shape[2] of the tensor distal_out / distal_out2
    x_kind,          \* "none" | "seq" [B,C,L] | "chan" [B,C] | "class" [B,n_class]
    jump_len,        \* shape[2] of jump_input / jump_input2
    applied,         \* names of the layers applied so far
    heads,           \* which of local_out / distal_out / distal_out2 hold class logits
    out_kind,        \* "none" or "class": shape of the returned tensor
    \* ---- one residual block (ResBlock / ResBlock2)
    rb_variant,      \* "ResBlock" (ReLU, bn, conv) or "ResBlock2" (bn, ReLU, conv)
    rb_k, rb_s, rb_p, rb_d,   \* kernel_size, stride, padding, dilation
    rb_x,            \* x.shape[2]
    rb_pc,           \* "conv1" | "conv2" | "add" | "done" | "raised"
    rb_out,          \* out.shape[2] while self.layer runs
    rb_res,          \* shape[2] of the returned tensor
    \* ---- fusion of the branch outputs (fixed point, Scale units = 1.0)
    fus_model,       \* 1: Network1, 2: Network2
    local_logits,    \* output of local_fc, one logit per class
    distal_logits,   \* output of distal_fc1
    distal2_logits,  \* output of distal_fc2
    fus_pc,          \* "distal" | "local" | "log" | "done"
    distal_out,      \* (softmax(distal_out) + softmax(distal_out2))/2
    local_out,       \* softmax(local_out)
    out,             \* the returned tensor, each entry the logarithm of out[i].ln
    \* ---- main() of run_train_raytune.py and the trials of tune.run
    drv_pc,          \* position of main()
    ray_up,          \* ray.is_initialized()
    exit_code,       \* exit status of the process, -1 while it runs
    cuda_available,  \* torch.cuda.is_available()
    ray_ngpus,       \* --ray_ngpus
    gpu_per_trial,   \* --gpu_per_trial, in hundredths of a GPU
    epochs,          \* --epochs: max_t of the scheduler
    grace_period,    \* --grace_period
    rerun_failed,    \* --rerun_failed
    prior,           \* status of each trial in the checkpoint of an earlier
                     \* run of the experiment ("NONE": no checkpoint)
    trial_radius,    \* distal_radius sampled for each trial
    status,          \* PENDING | RUNNING | COMPLETED | EARLY_STOPPED | ERRORED
    iter,            \* training_iteration of the trial's last result
    min_loss,        \* best loss the trial has seen (0: none yet)
    after_min_loss,  \* reports since the best loss
    rungs,           \* per rung of the bracket: the loss each trial recorded (0: none)
    started,         \* trials that this run has launched
    resumed,         \* trials that this run took from the checkpoint
    \* ---- a log-uniform hyperparameter (learning_rate, weight_decay)
    lu_given,        \* the values given on the command line
    lu_list,         \* the list after lines 397-400
    lu_bounds,       \* the arguments of tune.loguniform
    lu_sample,       \* the value each trial gets: v grid units + ulp roundings
    lu_pc,           \* "prepare" | "config" | "sample" | "done"
    rounding,        \* rounding of base**(log(x)/log(base)) per value x, in ulps
    \* ---- two runs of the driver with the same command line and data
    seed_arg,        \* --split_seed as given (-1: not given)
    device,          \* "cpu" or "cuda": where the trials compute
    run_pc,          \* per run: "seed" | "conv" | "eval" | "finish" | "done"
    split_seed,      \* per run: args.split_seed after lines 376-377
    conv_algo,       \* per run: the convolution algorithm cuDNN runs (0: none)
    printed,         \* per run: whether forward() printed its statistics
    trajectory,      \* per run: what the training result is a function of
    \* ---- the sizes of the two local hidden layers
    local_hidden1_size,  \* the values given to --local_hidden1_size
    local_hidden2_size,  \* the values given to --local_hidden2_size
    hid_pc,          \* "config" | "sample" | "done"
    hidden2_entry,   \* config['local_hidden2_size']: "choice" | "sample_from"
    sampled,         \* trials whose configuration has been sampled
    trial_hidden     \* per trial: the two sizes of its sampled configuration

fwdVars == <<model_no, distal_radius, distal_order, kernel_size, no_of_cat,
             no_of_cont, pc, err, failed_at, x_len, x_kind, jump_len, applied,
             heads, out_kind>>

rbVars == <<rb_variant, rb_k, rb_s, rb_p, rb_d, rb_x, rb_pc, rb_out, rb_res>>

fusVars == <<fus_model, local_logits, distal_logits, distal2_logits, fus_pc,
             distal_out, local_out, out>>

hostVars == <<cuda_available, ray_ngpus, gpu_per_trial, epochs, grace_period,
              rerun_failed, prior>>

trialVars == <<trial_radius, status, iter, min_loss, after_min_loss, rungs,
               started, resumed>>

tuneVars == <<drv_pc, ray_up, exit_code, hostVars, trialVars>>

luVars == <<lu_given, lu_list, lu_bounds, lu_sample, lu_pc, rounding>>

runVars == <<seed_arg, device, run_pc, split_seed, conv_algo, printed,
             trajectory>>

hidVars == <<local_hidden1_size, local_hidden2_size, hid_pc, hidden2_entry,
             sampled, trial_hidden>>

nonFwdVars == <<rbVars, fusVars, tuneVars, luVars, runVars, hidVars>>
nonRbVars == <<fwdVars, fusVars, tuneVars, luVars, runVars, hidVars>>
nonFusVars == <<fwdVars, rbVars, tuneVars, luVars, runVars, hidVars>>
nonTuneVars == <<fwdVars, rbVars, fusVars, luVars, runVars, hidVars>>
nonLuVars == <<fwdVars, rbVars, fusVars, tuneVars, runVars, hidVars>>
nonRunVars == <<fwdVars, rbVars, fusVars, tuneVars, luVars, hidVars>>
nonHidVars == <<fwdVars, rbVars, fusVars, tuneVars, luVars, runVars>>

vars == <<fwdVars, rbVars, fusVars, tuneVars, luVars, runVars, hidVars>>

----------------------------------------------------------------------------
(* Bounds of the model                                                     *)

\* kernel sizes 1..MaxKernel are offered to --CNN_kernel_size
MaxKernel == 4
\* distal radii around the 200 bp limit: NearLo..NearHi
NearLo == 98
NearHi == 103

\* --distal_radius default, the radii around the limit, and radii around the
\* length from which an even kernel survives the large-scale pipeline
DistalRadii == {50} \cup (NearLo..NearHi) \cup {210, 211}
DistalOrders == {1, 2}
KernelSizes == 1..MaxKernel
NoOfCat == {0, 11}
NoOfCont == {0, 1}

\* residual blocks: input lengths 1..MaxResLen, kernel sizes 1..MaxResKernel,
\* strides 1..MaxResStride, paddings 0..MaxResPad, dilations 1..MaxResDil
MaxResLen == 9
MaxResKernel == 3
MaxResStride == 2
MaxResPad == 2
MaxResDil == 2

\* fusion: n_class classes; logits are 0, 1 or BigLogit; exp() keeps ExpBits
\* binary digits below 1 and underflows to 0 beyond them
NClass == 4
BigLogit == 20
ExpBits == 12
\* 1.0 in fixed-point units: one unit is 1e-9, the floor of torch.clamp
Scale == 1000000000
\* the "small epsilon" of the sum of probabilities, in units (1e-6)
SumTolerance == 1000

\* search driver: losses are 1..MaxLoss; --epochs is 3 or MaxEpochs
MaxLoss == 2
MaxEpochs == 5
\* log-uniform parameter: values 1..MaxValue grid units, at most MaxArgs of
\* them given, rounding of the sampler at most MaxUlp units in the last place
MaxValue == 3
MaxArgs == 3
MaxUlp == 1
\* two runs: random.randint draws from 0..MaxSeed, cuDNN's benchmark picks
\* among the algorithms 1..MaxAlgo
MaxSeed == 2
MaxAlgo == 2
\* the interrupt arrives before any trial has reported more often than this
MaxInterruptIter == 0
\* sizes 0..MaxHidden and the defaults are offered to the two hidden-size
\* options, in lists of up to MaxHiddenArgs values
MaxHidden == 3
MaxHiddenArgs == 2
\* --n_trials, --ray_ncpus, --cpu_per_trial (defaults)
n_trials == 3
ray_ncpus == 6
cpu_per_trial == 3
\* ASHAScheduler(reduction_factor=2, mode='min'): metric_op is -1
reduction_factor == 2
metric_op == -1
\* tune.run(stop={'after_min_loss': 3})
stop_after_min_loss == 3

----------------------------------------------------------------------------
(* A machine that a specification does not drive rests in its idle state   *)

Trials == 1..n_trials

Runs == {1, 2}

NoTrajectory == [split |-> -1, conv |-> 0]

IdleRuns ==
    /\ seed_arg = -1 /\ device = "cpu"
    /\ run_pc = [r \in Runs |-> "idle"]
    /\ split_seed = [r \in Runs |-> -1]
    /\ conv_algo = [r \in Runs |-> 0]
    /\ printed = [r \in Runs |-> FALSE]
    /\ trajectory = [r \in Runs |-> NoTrajectory]

NoHidden == [local_hidden1_size |-> 0, local_hidden2_size |-> 0]

IdleHidden ==
    /\ local_hidden1_size = << >> /\ local_hidden2_size = << >>
    /\ hid_pc = "idle" /\ hidden2_entry = "none" /\ sampled = {}
    /\ trial_hidden = [t \in Trials |-> NoHidden]

NoSample == [v |-> 0, ulp |-> 0]

IdleLogUniform ==
    /\ lu_given = << >> /\ lu_list = << >> /\ lu_bounds = << >>
    /\ lu_sample = [t \in Trials |-> NoSample]
    /\ lu_pc = "idle" /\ rounding = << >>

IdleTune ==
    /\ drv_pc = "idle" /\ ray_up = FALSE /\ exit_code = -1
    /\ cuda_available = FALSE /\ ray_ngpus = 0 /\ gpu_per_trial = 0
    /\ epochs = 1 /\ grace_period = 1
    /\ rerun_failed = FALSE /\ prior = [t \in Trials |-> "NONE"]
    /\ started = {} /\ resumed = {}
    /\ trial_radius = [t \in Trials |-> 0]
    /\ status = [t \in Trials |-> "PENDING"]
    /\ iter = [t \in Trials |-> 0]
    /\ min_loss = [t \in Trials |-> 0]
    /\ after_min_loss = [t \in Trials |-> 0]
    /\ rungs = << >>

Classes == 1..NClass
ZeroVec == [i \in Classes |-> 0]

IdleForward ==
    /\ model_no = 1 /\ distal_radius = 0 /\ distal_order = 1 /\ kernel_size = 1
    /\ no_of_cat = 0 /\ no_of_cont = 0 /\ pc = 1 /\ err = "idle"
    /\ failed_at = "none" /\ x_len = 0 /\ x_kind = "none" /\ jump_len = 0
    /\ applied = {} /\ heads = {} /\ out_kind = "none"

IdleResBlock ==
    /\ rb_variant = "ResBlock" /\ rb_k = 3 /\ rb_s = 1 /\ rb_p = 0 /\ rb_d = 1
    /\ rb_x = 1 /\ rb_pc = "idle" /\ rb_out = 0 /\ rb_res = 0

IdleFusion ==
    /\ fus_model = 1 /\ local_logits = ZeroVec /\ distal_logits = ZeroVec
    /\ distal2_logits = ZeroVec /\ fus_pc = "idle" /\ distal_out = ZeroVec
    /\ local_out = ZeroVec /\ out = ZeroVec

----------------------------------------------------------------------------
(* Length arithmetic of torch's 1-d layers                                 *)

\* nn.Conv1d raises when the padded input is shorter than the dilated kernel
ConvOk(L, k, s, p, d) == L + 2 * p >= d * (k - 1) + 1

ConvLen_NoDilation(L, k, s, p, d) == ((L + 2 * p - (k - 1) - 1) \div s) + 1

\* L_out = floor((L_in + 2*padding - dilation*(kernel_size-1) - 1)/stride + 1)
ConvLen(L, k, s, p, d) == ((L + 2 * p - d * (k - 1) - 1) \div s) + 1

\* nn.MaxPool1d(kernel, stride, padding), ceil_mode False
PoolLen(L, k, s, p) == ((L + 2 * p - k) \div s) + 1

PoolOk(L, k, s, p) == 2 * p <= k /\ L + 2 * p >= k

\* length of t[:, :, lo:hi] on a tensor of n positions (Python slice rules)
PyIndex(i, n) == IF i < 0 THEN (IF n + i < 0 THEN 0 ELSE n + i)
                 ELSE (IF i > n THEN n ELSE i)

SliceLen(n, lo, hi) ==
    LET a == PyIndex(lo, n)
        b == PyIndex(hi, n)
    IN  IF b > a THEN b - a ELSE 0

\* a + b on the last axis: equal sizes, or one of them is 1 (broadcast)
AddOk(a, b) == a = b \/ a = 1 \/ b = 1

AddLen(a, b) == IF a >= b THEN a ELSE b

----------------------------------------------------------------------------
(* The residual block                                                      *)

\* self.layer: two Conv1d with the same kernel_size, stride, padding, dilation
LayerOk(L, k, s, p, d) ==
    /\ ConvOk(L, k, s, p, d)
    /\ ConvOk(ConvLen(L, k, s, p, d), k, s, p, d)

LayerLen(L, k, s, p, d) == ConvLen(ConvLen(L, k, s, p, d), k, s, p, d)

\* d = x.shape[2] - out.shape[2]; x[:,:,0:x.shape[2]-d]
SkipLen(L, outL) == SliceLen(L, 0, L - (L - outL))

\* ResBlock.forward / ResBlock2.forward succeed
ResBlockOk(L, k, s, p, d) ==
    /\ LayerOk(L, k, s, p, d)
    /\ AddOk(SkipLen(L, LayerLen(L, k, s, p, d)), LayerLen(L, k, s, p, d))

ResBlockLen(L, k, s, p, d) ==
    AddLen(SkipLen(L, LayerLen(L, k, s, p, d)), LayerLen(L, k, s, p, d))

----------------------------------------------------------------------------
(* Network1 / Network2: the statements of forward() in source order        *)

rb1_kernel_size == 3
rb2_kernel_size == 3

St(op, name, k, s, p, input, save) ==
    [op |-> op, name |-> name, k |-> k, s |-> s, p |-> p,
     input |-> input, save |-> save]

ConvSt(name, ks, input, save) ==
    St("conv", name, ks, 1, (ks - 1) \div 2, input, save)

PoolSt(name, k, s, p, save) == St("pool", name, k, s, p, "cur", save)

RBsSt_NoPadding(name, k) == St("rbs", name, k, 1, 0, "cur", FALSE)

RBsSt(name, k) == St("rbs", name, k, 1, (k - 1) \div 2, "cur", FALSE)

Plain(op, name) == St(op, name, 0, 0, 0, "cur", FALSE)

\* middle-scale pipeline: the centred 201 bp window
Pipeline1(ks) ==
    << Plain("crop", "distal_input0"),
       ConvSt("conv1", ks, "crop", FALSE),
       PoolSt("maxpool1", 3, 3, 1, TRUE),
       RBsSt("RBs1", rb1_kernel_size),
       Plain("skipadd", "skip1"),
       PoolSt("maxpool2", 3, 3, 1, FALSE),
       ConvSt("conv2", ks, "cur", TRUE),
       RBsSt("RBs2", rb2_kernel_size),
       Plain("skipadd", "skip2"),
       PoolSt("maxpool3", 3, 3, 1, FALSE),
       ConvSt("conv3", ks, "cur", FALSE),
       Plain("max", "max1") >>

\* large-scale pipeline: the whole distal window
Pipeline2(ks) ==
    << ConvSt("conv1_2", ks, "full", FALSE),
       PoolSt("maxpool1_2", 15, 15, 7, TRUE),
       RBsSt("RBs1_2", rb1_kernel_size),
       Plain("skipadd", "skip1_2"),
       PoolSt("maxpool2_2", 7, 7, 3, FALSE),
       ConvSt("conv2_2", ks, "cur", TRUE),
       RBsSt("RBs2_2", rb2_kernel_size),
       Plain("skipadd", "skip2_2"),
       PoolSt("maxpool3_2", 3, 3, 1, FALSE),
       ConvSt("conv3_2", ks, "cur", FALSE),
       Plain("max", "max2"),
       Plain("fc", "distal_fc2") >>

Network1Forward(ks) ==
    << Plain("assert", "assert_len") >> \o Pipeline1(ks)
       \o << Plain("fc", "distal_fc1") >> \o Pipeline2(ks)
       \o << Plain("fuse", "fuse") >>

Network2Forward(ks) ==
    << Plain("local", "local"), Plain("assert", "assert_len") >>
       \o Pipeline1(ks)
       \o << Plain("fc", "local_fc"), Plain("fc", "distal_fc1") >>
       \o Pipeline2(ks)
       \o << Plain("fuse", "fuse") >>

Prog == IF model_no = 1 THEN Network1Forward(kernel_size)
        ELSE Network2Forward(kernel_size)

\* distal_input.shape[2] as the data loader builds it from the hyperparameters
seq_len == distal_radius * 2 + 1 - (distal_order - 1)

Running == err = "none" /\ pc <= Len(Prog)
Returned == err = "none" /\ pc = Len(Prog) + 1
Raised == err # "none"

Cur == Prog[pc]

ConvNames == {"conv1", "conv2", "conv3", "conv1_2", "conv2_2", "conv3_2"}
ResNames == {"RBs1", "RBs2", "RBs1_2", "RBs2_2"}

cfgVars == <<model_no, distal_radius, distal_order, kernel_size, no_of_cat,
             no_of_cont>>

Raise(e) ==
    /\ err' = e
    /\ failed_at' = Cur.name
    /\ UNCHANGED <<pc, x_len, x_kind, jump_len, applied, heads, out_kind>>

Advance == pc' = pc + 1 /\ UNCHANGED <<err, failed_at>>

\* Network2.forward lines 447-466: embeddings, batch norm, linear layers
LocalBranch ==
    /\ Running /\ Cur.op = "local"
    /\ IF no_of_cat = 0
       THEN \* local_out is read by torch.cat before any assignment
            Raise("UnboundLocalError")
       ELSE /\ Advance
            /\ applied' = applied \cup {"emb_layer", "lin_layers"}
                          \cup (IF no_of_cont # 0 THEN {"first_bn_layer"} ELSE {})
            /\ UNCHANGED <<x_len, x_kind, jump_len, heads, out_kind>>
    /\ UNCHANGED <<cfgVars, nonFwdVars>>

LenPrecondition_AtLeast == seq_len >= 200

\* distal_input.shape[2] > 200
LenPrecondition == seq_len > 200

\* assert distal_input.shape[2] > 200, "Error: distal seq len must be >200bp"
AssertLen ==
    /\ Running /\ Cur.op = "assert"
    /\ IF LenPrecondition
       THEN /\ Advance
            /\ UNCHANGED <<x_len, x_kind, jump_len, applied, heads, out_kind>>
       ELSE Raise("AssertionError")
    /\ UNCHANGED <<cfgVars, nonFwdVars>>

\* distal_input0 = distal_input[:,:,(L//2-100):(L//2+100+1)]
CropLo == seq_len \div 2 - 100
CropHi_Exclusive == seq_len \div 2 + 100

CropHi == seq_len \div 2 + 100 + 1

Crop ==
    /\ Running /\ Cur.op = "crop"
    /\ Advance
    /\ UNCHANGED <<x_len, x_kind, jump_len, applied, heads, out_kind>>
    /\ UNCHANGED <<cfgVars, nonFwdVars>>

InputLen(st) ==
    CASE st.input = "crop" -> SliceLen(seq_len, CropLo, CropHi)
      [] st.input = "full" -> seq_len
      [] OTHER -> x_len

\* BatchNorm1d + Conv1d(kernel_size, 1, (kernel_size-1)//2)
Conv ==
    /\ Running /\ Cur.op = "conv"
    /\ LET L == InputLen(Cur) IN
       IF ConvOk(L, Cur.k, Cur.s, Cur.p, 1)
       THEN /\ Advance
            /\ x_len' = ConvLen(L, Cur.k, Cur.s, Cur.p, 1)
            /\ x_kind' = "seq"
            /\ jump_len' = IF Cur.save THEN x_len' ELSE jump_len
            /\ applied' = applied \cup {Cur.name}
            /\ UNCHANGED <<heads, out_kind>>
       ELSE Raise("RuntimeError")
    /\ UNCHANGED <<cfgVars, nonFwdVars>>

\* MaxPool1d
MaxPool ==
    /\ Running /\ Cur.op = "pool"
    /\ IF PoolOk(x_len, Cur.k, Cur.s, Cur.p)
       THEN /\ Advance
            /\ x_len' = PoolLen(x_len, Cur.k, Cur.s, Cur.p)
            /\ jump_len' = IF Cur.save THEN x_len' ELSE jump_len
            /\ applied' = applied \cup {Cur.name}
            /\ UNCHANGED <<x_kind, heads, out_kind>>
       ELSE Raise("RuntimeError")
    /\ UNCHANGED <<cfgVars, nonFwdVars>>

\* nn.Sequential of two ResBlock(kernel_size=3, stride=1, padding=1, dilation=1)
RBs ==
    /\ Running /\ Cur.op = "rbs"
    /\ LET L1 == ResBlockLen(x_len, Cur.k, Cur.s, Cur.p, 1) IN
       IF /\ ResBlockOk(x_len, Cur.k, Cur.s, Cur.p, 1)
          /\ ResBlockOk(L1, Cur.k, Cur.s, Cur.p, 1)
       THEN /\ Advance
            /\ x_len' = ResBlockLen(L1, Cur.k, Cur.s, Cur.p, 1)
            /\ applied' = applied \cup {Cur.name}
            /\ UNCHANGED <<x_kind, jump_len, heads, out_kind>>
       ELSE Raise("RuntimeError")
    /\ UNCHANGED <<cfgVars, nonFwdVars>>

\* assert(jump_input.shape[2] >= distal_out.shape[2]);
\* distal_out = distal_out + jump_input[:,:,0:distal_out.shape[2]]
SkipAdd ==
    /\ Running /\ Cur.op = "skipadd"
    /\ IF ~(jump_len >= x_len)
       THEN Raise("AssertionError")
       ELSE IF ~AddOk(x_len, SliceLen(jump_len, 0, x_len))
       THEN Raise("RuntimeError")
       ELSE /\ Advance
            /\ x_len' = AddLen(x_len, SliceLen(jump_len, 0, x_len))
            /\ UNCHANGED <<x_kind, jump_len, applied, heads, out_kind>>
    /\ UNCHANGED <<cfgVars, nonFwdVars>>

\* distal_out, _ = torch.max(distal_out, dim=2)
GlobalMax ==
    /\ Running /\ Cur.op = "max"
    /\ IF x_len >= 1
       THEN /\ Advance
            /\ x_kind' = "chan"
            /\ x_len' = 0
            /\ UNCHANGED <<jump_len, applied, heads, out_kind>>
       ELSE Raise("RuntimeError")
    /\ UNCHANGED <<cfgVars, nonFwdVars>>

\* local_fc / distal_fc1 / distal_fc2: a Linear layer onto n_class logits
FC ==
    /\ Running /\ Cur.op = "fc"
    /\ Advance
    /\ heads' = heads \cup {Cur.name}
    /\ applied' = applied \cup {Cur.name}
    /\ x_kind' = IF Cur.name = "local_fc" THEN x_kind ELSE "class"
    /\ UNCHANGED <<x_len, jump_len, out_kind>>
    /\ UNCHANGED <<cfgVars, nonFwdVars>>

NeededHeads == IF model_no = 1 THEN {"distal_fc1", "distal_fc2"}
               ELSE {"local_fc", "distal_fc1", "distal_fc2"}

\* torch.log(torch.clamp(mean of the softmax outputs, min=1e-9)); return
Fuse ==
    /\ Running /\ Cur.op = "fuse"
    /\ heads = NeededHeads
    /\ Advance
    /\ out_kind' = "class"
    /\ UNCHANGED <<x_len, x_kind, jump_len, applied, heads>>
    /\ UNCHANGED <<cfgVars, nonFwdVars>>

InitForward ==
    /\ model_no \in {1, 2}
    /\ distal_radius \in DistalRadii
    /\ distal_order \in DistalOrders
    /\ kernel_size \in KernelSizes
    /\ no_of_cat \in NoOfCat
    /\ no_of_cont \in NoOfCont
    /\ pc = 1
    /\ err = "none"
    /\ failed_at = "none"
    /\ x_len = 0
    /\ x_kind = "none"
    /\ jump_len = 0
    /\ applied = {}
    /\ heads = {}
    /\ out_kind = "none"
    /\ IdleResBlock
    /\ IdleFusion
    /\ IdleTune
    /\ IdleLogUniform
    /\ IdleRuns
    /\ IdleHidden

NextForward ==
    \/ LocalBranch
    \/ AssertLen
    \/ Crop
    \/ Conv
    \/ MaxPool
    \/ RBs
    \/ SkipAdd
    \/ GlobalMax
    \/ FC
    \/ Fuse


SpecForward == InitForward /\ [][NextForward]_vars

----------------------------------------------------------------------------
(* ResBlock.forward / ResBlock2.forward, one convolution at a time         *)

rbCfg == <<rb_variant, rb_k, rb_s, rb_p, rb_d, rb_x>>

\* out = self.layer(x): first (ReLU, bn1 | bn1, ReLU), conv1
RBConv1 ==
    /\ rb_pc = "conv1"
    /\ IF ConvOk(rb_x, rb_k, rb_s, rb_p, rb_d)
       THEN /\ rb_out' = ConvLen(rb_x, rb_k, rb_s, rb_p, rb_d)
            /\ rb_pc' = "conv2"
       ELSE /\ rb_pc' = "raised"
            /\ UNCHANGED rb_out
    /\ UNCHANGED <<rbCfg, rb_res, nonRbVars>>

\* (ReLU, bn2 | bn2, ReLU), conv2
RBConv2 ==
    /\ rb_pc = "conv2"
    /\ IF ConvOk(rb_out, rb_k, rb_s, rb_p, rb_d)
       THEN /\ rb_out' = ConvLen(rb_out, rb_k, rb_s, rb_p, rb_d)
            /\ rb_pc' = "add"
       ELSE /\ rb_pc' = "raised"
            /\ UNCHANGED rb_out
    /\ UNCHANGED <<rbCfg, rb_res, nonRbVars>>

\* d = x.shape[2] - out.shape[2]; out = x[:,:,0:x.shape[2]-d] + out
RBAdd ==
    /\ rb_pc = "add"
    /\ IF AddOk(SkipLen(rb_x, rb_out), rb_out)
       THEN /\ rb_res' = AddLen(SkipLen(rb_x, rb_out), rb_out)
            /\ rb_pc' = "done"
       ELSE /\ rb_pc' = "raised"
            /\ UNCHANGED rb_res
    /\ UNCHANGED <<rbCfg, rb_out, nonRbVars>>

InitResBlock ==
    /\ rb_variant \in {"ResBlock", "ResBlock2"}
    /\ rb_k \in 1..MaxResKernel
    /\ rb_s \in 1..MaxResStride
    /\ rb_p \in 0..MaxResPad
    /\ rb_d \in 1..MaxResDil
    /\ rb_x \in 1..MaxResLen
    /\ rb_pc = "conv1"
    /\ rb_out = 0
    /\ rb_res = 0
    /\ IdleForward
    /\ IdleFusion
    /\ IdleTune
    /\ IdleLogUniform
    /\ IdleRuns
    /\ IdleHidden

NextResBlock == RBConv1 \/ RBConv2 \/ RBAdd

SpecResBlock == InitResBlock /\ [][NextResBlock]_vars

----------------------------------------------------------------------------
(* Fusion: F.softmax, the mean of the branches, torch.clamp, torch.log     *)

Margins == {0, 1, BigLogit}

\* logit vectors: one class set apart from the others by a margin
Hot(c, m) == [i \in Classes |-> IF i = c THEN m ELSE 0]
Cold(c, m) == [i \in Classes |-> IF i = c THEN 0 ELSE m]
LogitVectors == {Hot(c, m) : c \in Classes, m \in Margins}
                    \cup {Cold(c, m) : c \in Classes, m \in Margins}

RECURSIVE Pow2(_)
Pow2(n) == IF n = 0 THEN 1 ELSE 2 * Pow2(n - 1)

RECURSIVE SumTo(_, _)
SumTo(v, n) == IF n = 0 THEN 0 ELSE v[n] + SumTo(v, n - 1)
Sum(v) == SumTo(v, NClass)

RECURSIVE MaxTo(_, _)
MaxTo(v, n) == IF n = 1 THEN v[1]
               ELSE LET m == MaxTo(v, n - 1) IN IF v[n] > m THEN v[n] ELSE m

\* floor(a * b / c) without leaving 32 bits (b <= c)
MulDiv(a, b, c) == (a \div c) * b + ((a % c) * b) \div c

\* exp(z - max) in base 2: ExpBits digits below 1, then underflow to 0
ExpWeight(z, zmax) == IF zmax - z > ExpBits THEN 0
                      ELSE Pow2(ExpBits - (zmax - z))

\* F.softmax(z, dim=1) of one sample
Softmax(z) ==
    LET zmax == MaxTo(z, NClass)
        w == [i \in Classes |-> ExpWeight(z[i], zmax)]
    IN  [i \in Classes |-> MulDiv(Scale, w[i], Sum(w))]

Clamp_None(v, lo) == v

\* torch.clamp(v, min=lo)
Clamp(v, lo) == IF v < lo THEN lo ELSE v

\* min=1e-9
ClampMin == 1

\* torch.log(v): the real number whose exponential is v (v = 0 gives -inf)
Log(v) == [ln |-> v]
Exp(r) == r.ln
IsNegInf(r) == r.ln = 0

Mean2(a, b) == [i \in Classes |-> (a[i] + b[i]) \div 2]

SoftmaxDistal_FirstOnly ==
    /\ fus_pc = "distal"
    /\ distal_out' = Softmax(distal_logits)
    /\ fus_pc' = IF fus_model = 2 THEN "local" ELSE "log"
    /\ UNCHANGED <<fus_model, local_logits, distal_logits, distal2_logits,
                   local_out, out, nonFusVars>>

\* Network1 line 283, Network2 line 518: the mean of the two distal softmaxes
SoftmaxDistal ==
    /\ fus_pc = "distal"
    /\ distal_out' = Mean2(Softmax(distal_logits), Softmax(distal2_logits))
    /\ fus_pc' = IF fus_model = 2 THEN "local" ELSE "log"
    /\ UNCHANGED <<fus_model, local_logits, distal_logits, distal2_logits,
                   local_out, out, nonFusVars>>

\* Network2 line 519: local_out = F.softmax(local_out, dim=1)
SoftmaxLocal ==
    /\ fus_pc = "local"
    /\ local_out' = Softmax(local_logits)
    /\ fus_pc' = "log"
    /\ UNCHANGED <<fus_model, local_logits, distal_logits, distal2_logits,
                   distal_out, out, nonFusVars>>

\* Network1 line 283: log(clamp(distal mean, min=1e-9));
\* Network2 line 526: log(clamp((local_out + distal_out)/2, min=1e-9))
ClampLog ==
    /\ fus_pc = "log"
    /\ LET m == IF fus_model = 2 THEN Mean2(local_out, distal_out)
                ELSE distal_out
       IN  out' = [i \in Classes |-> Log(Clamp(m[i], ClampMin))]
    /\ fus_pc' = "done"
    /\ UNCHANGED <<fus_model, local_logits, distal_logits, distal2_logits,
                   distal_out, local_out, nonFusVars>>

InitFusion ==
    /\ fus_model \in {1, 2}
    /\ local_logits \in (IF fus_model = 2 THEN LogitVectors ELSE {ZeroVec})
    /\ distal_logits \in LogitVectors
    /\ distal2_logits \in LogitVectors
    /\ fus_pc = "distal"
    /\ distal_out = ZeroVec
    /\ local_out = ZeroVec
    /\ out = ZeroVec
    /\ IdleForward
    /\ IdleResBlock
    /\ IdleTune
    /\ IdleLogUniform
    /\ IdleRuns
    /\ IdleHidden

NextFusion == SoftmaxDistal \/ SoftmaxLocal \/ ClampLog

SpecFusion == InitFusion /\ [][NextFusion]_vars

----------------------------------------------------------------------------
(* The search driver: main(), and the trials that tune.run executes under  *)
(* ASHAScheduler(mode='min', max_t=epochs, grace_period, reduction_factor) *)
(* with stop={'after_min_loss': 3}                                         *)

EndStates == {"COMPLETED", "EARLY_STOPPED", "ERRORED"}

\* the (epochs, grace_period) pairs offered to the driver
Schedules == {<<3, 1>>, <<MaxEpochs, MaxEpochs>>}

\* (cuda_available, ray_ngpus, gpu_per_trial): a CPU-only run, a GPU run
\* with GPU share for one trial at a time, one that asks for a share of a
\* GPU that Ray is not given, and two requests for a GPU on a host without
\* CUDA
Hosts == {<<FALSE, 0, 0>>, <<TRUE, 1, 60>>, <<TRUE, 0, 19>>,
          <<FALSE, 1, 19>>, <<FALSE, 0, 19>>}

\* the values given to --distal_radius: the default and one above the limit
TrialRadii == {50, NearHi}

\* rungs of the bracket: milestones grace_period * reduction_factor^k <= max_t
RECURSIVE RungCount(_, _)
RungCount(m, max_t) ==
    IF m > max_t THEN 0 ELSE 1 + RungCount(m * reduction_factor, max_t)

RECURSIVE Milestone(_)
Milestone(k) ==
    IF k = 0 THEN grace_period ELSE reduction_factor * Milestone(k - 1)

NoRecord == [t \in Trials |-> 0]

EmptyRungs(max_t, min_t) == [k \in 0..(RungCount(min_t, max_t) - 1) |-> NoRecord]

Recorded(rec) == {t \in Trials : rec[t] # 0}

\* the scheduler maximises metric_op * metric
Reward(l) == metric_op * l

\* the k-th smallest reward recorded in a rung
KthSmallest(rec, k) ==
    LET S == Recorded(rec)
        R == {Reward(rec[t]) : t \in S}
    IN  CHOOSE v \in R :
            /\ Cardinality({t \in S : Reward(rec[t]) < v}) < k
            /\ k <= Cardinality({t \in S : Reward(rec[t]) <= v})

\* twice np.percentile(rewards, (1 - 1/reduction_factor) * 100), the median
TwiceCutoff(rec) ==
    LET n == Cardinality(Recorded(rec))
    IN  KthSmallest(rec, (n - 1) \div 2 + 1) + KthSmallest(rec, n \div 2 + 1)

BelowCutoff_NoneStops(l, rec) ==
    Recorded(rec) = {} \/ 2 * Reward(l) < TwiceCutoff(rec)

BelowCutoff_ModeMax(l, rec) ==
    Recorded(rec) # {} /\ 2 * Reward(l) > TwiceCutoff(rec)

\* cutoff is not None and cur_rew < cutoff
BelowCutoff(l, rec) ==
    Recorded(rec) # {} /\ 2 * Reward(l) < TwiceCutoff(rec)

\* rungs whose milestone the trial has reached and where it is not recorded
HitRungs(t, i, rg) == {k \in DOMAIN rg : Milestone(k) <= i /\ rg[k][t] = 0}

MaxOf(S) == CHOOSE x \in S : \A y \in S : y <= x

\* _Bracket.on_result: the action
BracketAction(t, i, l, rg) ==
    IF HitRungs(t, i, rg) = {} THEN "CONTINUE"
    ELSE IF BelowCutoff(l, rg[MaxOf(HitRungs(t, i, rg))]) THEN "STOP"
    ELSE "CONTINUE"

\* _Bracket.on_result: recorded[trial_id] = cur_rew
BracketRecord(t, i, l, rg) ==
    IF HitRungs(t, i, rg) = {} THEN rg
    ELSE [rg EXCEPT ![MaxOf(HitRungs(t, i, rg))][t] = l]

OnTrialResult_NoCap(t, i, l, rg) == BracketAction(t, i, l, rg)

\* AsyncHyperBandScheduler.on_trial_result
OnTrialResult(t, i, l, rg) ==
    IF i >= epochs THEN "STOP" ELSE BracketAction(t, i, l, rg)

ShouldStop_Above(a) == a > stop_after_min_loss

\* Trial.should_stop: result['after_min_loss'] >= 3
ShouldStop(a) == a >= stop_after_min_loss

\* the counter that train() reports: 0 at a new best loss, else one more
NextAfterMinLoss(t, l) ==
    IF min_loss[t] = 0 \/ l < min_loss[t] THEN 0 ELSE after_min_loss[t] + 1

NextMinLoss(t, l) ==
    IF min_loss[t] = 0 \/ l < min_loss[t] THEN l ELSE min_loss[t]

\* distal_input.shape[2] of the trial's batches (distal_order 1)
TrialSeqLen(t) == trial_radius[t] * 2 + 1

Holding_UntilDriverEnds(t) == status[t] \in {"RUNNING", "ERRORED"}

\* trials that hold their resources_per_trial
Holding(t) == status[t] = "RUNNING"

Holders == {t \in Trials : Holding(t)}

Fits_CpuOnly ==
    (Cardinality(Holders) + 1) * cpu_per_trial <= ray_ncpus

\* one more trial fits into ray.init(num_cpus, num_gpus)
Fits ==
    /\ (Cardinality(Holders) + 1) * cpu_per_trial <= ray_ncpus
    /\ (Cardinality(Holders) + 1) * gpu_per_trial <= ray_ngpus * 100

AllEnded == \A t \in Trials : status[t] \in EndStates

AfterFailure_Retry == "PENDING"

\* tune.run without max_failures: a failed trial is not started again
AfterFailure == "ERRORED"

GpuCheck_BothRequested ==
    /\ drv_pc = "gpu_check"
    /\ IF (ray_ngpus > 0 /\ gpu_per_trial > 0) /\ ~cuda_available
       THEN drv_pc' = "exited"
       ELSE drv_pc' = "ray_init"
    /\ UNCHANGED <<ray_up, exit_code, hostVars, trialVars, nonTuneVars>>

\* lines 416-425: GPU requested but CUDA not available: sys.exit()
GpuCheck ==
    /\ drv_pc = "gpu_check"
    /\ IF (ray_ngpus > 0 \/ gpu_per_trial > 0) /\ ~cuda_available
       THEN drv_pc' = "exited"
       ELSE drv_pc' = "ray_init"
    /\ UNCHANGED <<ray_up, exit_code, hostVars, trialVars, nonTuneVars>>

\* line 433: ray.init(num_cpus=ray_ncpus, num_gpus=ray_ngpus)
RayInit ==
    /\ drv_pc = "ray_init"
    /\ ray_up' = TRUE
    /\ drv_pc' = "tune_call"
    /\ UNCHANGED <<exit_code, hostVars, trialVars, nonTuneVars>>

NoCheckpoint == [t \in Trials |-> "NONE"]

\* (rerun_failed, prior): a first run, a run after an earlier one with and
\* without --rerun_failed, and --rerun_failed with nothing to resume
Resumes == {<<FALSE, <<"ERRORED", "COMPLETED", "EARLY_STOPPED">> >>,
            <<TRUE, <<"ERRORED", "COMPLETED", "EARLY_STOPPED">> >>,
            <<TRUE, <<"ERRORED", "PENDING", "COMPLETED">> >>,
            <<TRUE, NoCheckpoint>>}

ResumeFlag_Local == IF rerun_failed THEN "LOCAL" ELSE "FALSE"

\* lines 427-430
ResumeFlag == IF rerun_failed THEN "ERRORED_ONLY" ELSE "FALSE"

\* the status a trial of the checkpoint is resumed with: ERRORED_ONLY
\* resets the errored trials, the others keep the recorded status
Reload(t) ==
    IF ResumeFlag = "ERRORED_ONLY" /\ prior[t] = "ERRORED" THEN "PENDING"
    ELSE prior[t]

\* line 477: tune.run creates num_samples trials, each with a sampled
\* config, or with resume takes the trials of the checkpoint; resuming
\* without a checkpoint raises ValueError
TuneRunCall ==
    /\ drv_pc = "tune_call"
    /\ IF ResumeFlag = "FALSE"
       THEN /\ trial_radius' \in [Trials -> TrialRadii]
            /\ drv_pc' = "tune_run"
            /\ UNCHANGED <<status, resumed>>
       ELSE IF prior = NoCheckpoint
       THEN /\ drv_pc' = "crashed"
            /\ UNCHANGED <<trial_radius, status, resumed>>
       ELSE /\ trial_radius' \in [Trials -> TrialRadii]
            /\ status' = [t \in Trials |-> Reload(t)]
            /\ resumed' = Trials
            /\ drv_pc' = "tune_run"
    /\ UNCHANGED <<ray_up, exit_code, hostVars, iter, min_loss,
                   after_min_loss, rungs, started, nonTuneVars>>

\* the runner starts the first pending trial when its resources fit
StartTrial(t) ==
    /\ drv_pc = "tune_run"
    /\ status[t] = "PENDING"
    /\ \A u \in Trials : u < t => status[u] # "PENDING"
    /\ Fits
    /\ status' = [status EXCEPT ![t] = "RUNNING"]
    /\ started' = started \cup {t}
    /\ UNCHANGED <<drv_pc, ray_up, exit_code, hostVars, trial_radius, iter,
                   min_loss, after_min_loss, rungs, resumed, nonTuneVars>>

\* a running trial reports loss l after one more epoch; the runner applies
\* the stop criterion, then the scheduler, and stops or continues the trial
Report(t, l) ==
    /\ drv_pc = "tune_run"
    /\ status[t] = "RUNNING"
    /\ TrialSeqLen(t) > 200
    /\ LET i == iter[t] + 1
           a == NextAfterMinLoss(t, l)
           decision == IF ShouldStop(a) THEN "STOP"
                       ELSE OnTrialResult(t, i, l, rungs)
       IN  /\ iter' = [iter EXCEPT ![t] = i]
           /\ after_min_loss' = [after_min_loss EXCEPT ![t] = a]
           /\ min_loss' = [min_loss EXCEPT ![t] = NextMinLoss(t, l)]
           /\ rungs' = BracketRecord(t, i, l, rungs)
           /\ status' = [status EXCEPT ![t] =
                            IF decision = "CONTINUE" THEN "RUNNING"
                            ELSE IF i >= epochs THEN "COMPLETED"
                            ELSE "EARLY_STOPPED"]
    /\ UNCHANGED <<drv_pc, ray_up, exit_code, hostVars, trial_radius,
                   started, resumed, nonTuneVars>>

\* the trial raises: the length assertion of forward(), a non-finite loss
TrialFails(t) ==
    /\ drv_pc = "tune_run"
    /\ status[t] = "RUNNING"
    /\ status' = [status EXCEPT ![t] = AfterFailure]
    /\ UNCHANGED <<drv_pc, ray_up, exit_code, hostVars, trial_radius, iter,
                   min_loss, after_min_loss, rungs, started, resumed,
                   nonTuneVars>>

\* tune.run returns when every trial has ended; raise_on_failed_trial is
\* left at True, so an errored trial makes it raise TuneError, which main()
\* does not catch
TuneRunReturn_NoRaise ==
    /\ drv_pc = "tune_run"
    /\ AllEnded
    /\ drv_pc' = "shutdown"
    /\ UNCHANGED <<ray_up, exit_code, hostVars, trialVars, nonTuneVars>>

TuneRunReturn ==
    /\ drv_pc = "tune_run"
    /\ AllEnded
    /\ IF \E t \in Trials : status[t] = "ERRORED"
       THEN drv_pc' = "crashed"
       ELSE drv_pc' = "shutdown"
    /\ UNCHANGED <<ray_up, exit_code, hostVars, trialVars, nonTuneVars>>

\* lines 499-500: if ray.is_initialized(): ray.shutdown()
RayShutdown ==
    /\ drv_pc = "shutdown"
    /\ ray_up' = FALSE
    /\ drv_pc' = "print_total"
    /\ UNCHANGED <<exit_code, hostVars, trialVars, nonTuneVars>>

\* line 502: print('Total time used: ...'); main() returns
PrintTotal ==
    /\ drv_pc = "print_total"
    /\ drv_pc' = "done"
    /\ UNCHANGED <<ray_up, exit_code, hostVars, trialVars, nonTuneVars>>

\* tune.run is interrupted (SIGINT) while trials have not ended: either it
\* stops the experiment and returns, or KeyboardInterrupt leaves main()
Interrupt ==
    /\ drv_pc = "tune_run"
    /\ ~AllEnded
    /\ \A t \in Trials : iter[t] <= MaxInterruptIter
    /\ drv_pc' \in {"shutdown", "crashed"}
    /\ UNCHANGED <<ray_up, exit_code, hostVars, trialVars, nonTuneVars>>

\* no trial runs and the next one asks for more than Ray was given: tune.run
\* raises TuneError (insufficient cluster resources) or waits for ever
InsufficientResources ==
    /\ drv_pc = "tune_run"
    /\ \E t \in Trials : status[t] = "PENDING"
    /\ Holders = {}
    /\ ~Fits
    /\ drv_pc' = "crashed"
    /\ UNCHANGED <<ray_up, exit_code, hostVars, trialVars, nonTuneVars>>

\* main() was left by sys.exit(), by an uncaught exception or by its return
Left == drv_pc \in {"exited", "crashed", "done"}

\* sys.exit() without argument and a normal return give 0, a traceback 1
ExitStatus == IF drv_pc = "crashed" THEN 1 ELSE 0

InterpreterExit_NoHook ==
    /\ Left
    /\ exit_code = -1
    /\ exit_code' = ExitStatus
    /\ UNCHANGED <<drv_pc, ray_up, hostVars, trialVars, nonTuneVars>>

\* the interpreter ends: the atexit hook that ray.init registered shuts a
\* still initialised Ray down, then the process returns its exit status
InterpreterExit ==
    /\ Left
    /\ exit_code = -1
    /\ ray_up' = FALSE
    /\ exit_code' = ExitStatus
    /\ UNCHANGED <<drv_pc, hostVars, trialVars, nonTuneVars>>

InitTune ==
    /\ drv_pc = "gpu_check"
    /\ ray_up = FALSE
    /\ exit_code = -1
    /\ \E h \in Hosts :
           cuda_available = h[1] /\ ray_ngpus = h[2] /\ gpu_per_trial = h[3]
    /\ \E s \in Schedules : epochs = s[1] /\ grace_period = s[2]
    /\ \E r \in Resumes : rerun_failed = r[1] /\ prior = r[2]
    /\ started = {}
    /\ resumed = {}
    /\ trial_radius = [t \in Trials |-> 0]
    /\ status = [t \in Trials |-> "PENDING"]
    /\ iter = [t \in Trials |-> 0]
    /\ min_loss = [t \in Trials |-> 0]
    /\ after_min_loss = [t \in Trials |-> 0]
    /\ rungs = EmptyRungs(epochs, grace_period)
    /\ IdleForward
    /\ IdleResBlock
    /\ IdleFusion
    /\ IdleLogUniform
    /\ IdleRuns
    /\ IdleHidden

NextTune ==
    \/ GpuCheck
    \/ RayInit
    \/ TuneRunCall
    \/ \E t \in Trials : StartTrial(t)
    \/ \E t \in Trials, l \in 1..MaxLoss : Report(t, l)
    \/ \E t \in Trials : TrialFails(t)
    \/ TuneRunReturn
    \/ RayShutdown
    \/ PrintTotal
    \/ Interrupt
    \/ InsufficientResources
    \/ InterpreterExit

SpecTune == InitTune /\ [][NextTune]_vars

----------------------------------------------------------------------------
(* The log-uniform hyperparameters: --learning_rate and --weight_decay go  *)
(* through the same statements of main()                                   *)

Values == 1..MaxValue

Given == UNION {[1..n -> Values] : n \in 1..MaxArgs}

\* lines 397-400: learning_rate = learning_rate*2 repeats a one-element list
Doubled(lst) == IF Len(lst) = 1 THEN lst \o lst ELSE lst

BoundsOf_FirstLast(lst) == <<lst[1], lst[Len(lst)]>>

\* lines 451, 455: tune.loguniform(learning_rate[0], learning_rate[1])
BoundsOf(lst) == <<lst[1], lst[2]>>

\* np.random.uniform(logmin, logmax) draws between its two arguments
Between(a, b) == IF a <= b THEN a..b ELSE b..a

\* the sampler returns base**u for the draw u: for u = log(x)/log(base) that
\* is x up to the rounding of the logarithms, the division and the power
LogUniformSample(x) == [v |-> x, ulp |-> rounding[x]]

Unsampled == {t \in Trials : lu_sample[t] = NoSample}

Prepare ==
    /\ lu_pc = "prepare"
    /\ lu_list' = Doubled(lu_list)
    /\ lu_pc' = "config"
    /\ UNCHANGED <<lu_given, lu_bounds, lu_sample, rounding, nonLuVars>>

\* the config entry; a list that is still too short raises IndexError
Config ==
    /\ lu_pc = "config"
    /\ IF Len(lu_list) < 2
       THEN lu_pc' = "raised" /\ UNCHANGED lu_bounds
       ELSE lu_pc' = "sample" /\ lu_bounds' = BoundsOf(lu_list)
    /\ UNCHANGED <<lu_given, lu_list, lu_sample, rounding, nonLuVars>>

\* tune.run samples the config of the next trial
SampleTrial(t) ==
    /\ lu_pc = "sample"
    /\ t \in Unsampled
    /\ \A u \in Unsampled : t <= u
    /\ \E x \in Between(lu_bounds[1], lu_bounds[2]) :
          lu_sample' = [lu_sample EXCEPT ![t] = LogUniformSample(x)]
    /\ lu_pc' = IF Unsampled = {t} THEN "done" ELSE "sample"
    /\ UNCHANGED <<lu_given, lu_list, lu_bounds, rounding, nonLuVars>>

InitLogUniform ==
    /\ lu_given \in Given
    /\ lu_list = lu_given
    /\ lu_bounds = << >>
    /\ lu_sample = [t \in Trials |-> NoSample]
    /\ lu_pc = "prepare"
    /\ rounding \in [Values -> (0 - MaxUlp)..MaxUlp]
    /\ IdleForward
    /\ IdleResBlock
    /\ IdleFusion
    /\ IdleTune
    /\ IdleRuns
    /\ IdleHidden

NextLogUniform ==
    \/ Prepare
    \/ Config
    \/ \E t \in Trials : SampleTrial(t)

SpecLogUniform == InitLogUniform /\ [][NextLogUniform]_vars

----------------------------------------------------------------------------
(* Two runs of the driver with the same command line over the same data    *)

\* line 23: torch.backends.cudnn.benchmark = True
cudnn_benchmark == TRUE

SeedArgs == -1..MaxSeed

\* lines 376-377: a seed that was not given is drawn with random.randint
SeedStep(r) ==
    /\ run_pc[r] = "seed"
    /\ \E s \in 0..MaxSeed :
          split_seed' = [split_seed EXCEPT ![r] =
                            IF seed_arg < 0 THEN s ELSE seed_arg]
    /\ run_pc' = [run_pc EXCEPT ![r] = "conv"]
    /\ UNCHANGED <<seed_arg, device, conv_algo, printed, trajectory,
                   nonRunVars>>

\* the first convolution of a trial: on a GPU with cudnn.benchmark cuDNN
\* times its algorithms and runs the one that was fastest this time; the
\* algorithms round differently
ConvStep(r) ==
    /\ run_pc[r] = "conv"
    /\ \E a \in 1..MaxAlgo :
          conv_algo' = [conv_algo EXCEPT ![r] =
                           IF device = "cuda" /\ cudnn_benchmark THEN a
                           ELSE IF device = "cuda" THEN 1
                           ELSE 0]
    /\ run_pc' = [run_pc EXCEPT ![r] = "eval"]
    /\ UNCHANGED <<seed_arg, device, split_seed, printed, trajectory,
                   nonRunVars>>

\* nn_models.py line 521: in evaluation forward() draws np.random.uniform
\* and prints statistics when the draw is small; the output is not changed
EvalStep(r) ==
    /\ run_pc[r] = "eval"
    /\ printed' \in {[printed EXCEPT ![r] = b] : b \in BOOLEAN}
    /\ run_pc' = [run_pc EXCEPT ![r] = "finish"]
    /\ UNCHANGED <<seed_arg, device, split_seed, conv_algo, trajectory,
                   nonRunVars>>

\* the trial's training: the split follows args.split_seed, the numbers
\* follow the convolution algorithm
FinishStep(r) ==
    /\ run_pc[r] = "finish"
    /\ trajectory' = [trajectory EXCEPT ![r] =
                         [split |-> split_seed[r], conv |-> conv_algo[r]]]
    /\ run_pc' = [run_pc EXCEPT ![r] = "done"]
    /\ UNCHANGED <<seed_arg, device, split_seed, conv_algo, printed,
                   nonRunVars>>

InitRuns ==
    /\ seed_arg \in SeedArgs
    /\ device \in {"cpu", "cuda"}
    /\ run_pc = [r \in Runs |-> "seed"]
    /\ split_seed = [r \in Runs |-> -1]
    /\ conv_algo = [r \in Runs |-> 0]
    /\ printed = [r \in Runs |-> FALSE]
    /\ trajectory = [r \in Runs |-> NoTrajectory]
    /\ IdleForward
    /\ IdleResBlock
    /\ IdleFusion
    /\ IdleTune
    /\ IdleLogUniform
    /\ IdleHidden

NextRuns ==
    \/ \E r \in Runs : SeedStep(r)
    \/ \E r \in Runs : ConvStep(r)
    \/ \E r \in Runs : EvalStep(r)
    \/ \E r \in Runs : FinishStep(r)

SpecRuns == InitRuns /\ [][NextRuns]_vars

----------------------------------------------------------------------------
(* main(): the sizes of the two hidden layers of the local module          *)

\* --local_hidden1_size: default [150]
Hidden1Values == (1..MaxHidden) \cup {150}

\* --local_hidden2_size: default [0]
Hidden2Values == (0..MaxHidden) \cup {100}

ArgLists(V) == UNION {[1..n -> V] : n \in 1..MaxHiddenArgs}

Range(lst) == {lst[i] : i \in DOMAIN lst}

\* line 443: tune.choice(local_hidden2_size) if local_hidden2_size[0]>0
\* else tune.sample_from(...)
Hidden2Entry == IF local_hidden2_size[1] > 0 THEN "choice" ELSE "sample_from"

\* lambda spec: spec.config.local_hidden1_size//2
HalfOf(h1) == h1 \div 2

\* the values the entry can resolve to once local_hidden1_size is h1
Hidden2Choices(h1) ==
    IF hidden2_entry = "choice" THEN Range(local_hidden2_size)
    ELSE {HalfOf(h1)}

\* lines 438-458: config = {...}
HiddenConfig ==
    /\ hid_pc = "config"
    /\ hidden2_entry' = Hidden2Entry
    /\ hid_pc' = "sample"
    /\ UNCHANGED <<local_hidden1_size, local_hidden2_size, sampled,
                   trial_hidden, nonHidVars>>

\* tune.run resolves the configuration of the next trial: the tune.choice
\* entries first, then the tune.sample_from entry that reads them
HiddenSample(t) ==
    /\ hid_pc = "sample"
    /\ t \notin sampled
    /\ \A u \in Trials \ sampled : t <= u
    /\ \E h1 \in Range(local_hidden1_size) :
          \E h2 \in Hidden2Choices(h1) :
              trial_hidden' = [trial_hidden EXCEPT ![t] =
                                  [local_hidden1_size |-> h1,
                                   local_hidden2_size |-> h2]]
    /\ sampled' = sampled \cup {t}
    /\ hid_pc' = IF sampled' = Trials THEN "done" ELSE "sample"
    /\ UNCHANGED <<local_hidden1_size, local_hidden2_size, hidden2_entry,
                   nonHidVars>>

InitHidden ==
    /\ local_hidden1_size \in ArgLists(Hidden1Values)
    /\ local_hidden2_size \in ArgLists(Hidden2Values)
    /\ hid_pc = "config"
    /\ hidden2_entry = "none"
    /\ sampled = {}
    /\ trial_hidden = [t \in Trials |-> NoHidden]
    /\ IdleForward
    /\ IdleResBlock
    /\ IdleFusion
    /\ IdleTune
    /\ IdleLogUniform
    /\ IdleRuns

NextHidden ==
    \/ HiddenConfig
    \/ \E t \in Trials : HiddenSample(t)

SpecHidden == InitHidden /\ [][NextHidden]_vars

----------------------------------------------------------------------------
(* Claims on the forward pass                                              *)

LocalStatements == {"local"}
PoolNames == {"maxpool1", "maxpool2", "maxpool3",
              "maxpool1_2", "maxpool2_2", "maxpool3_2"}

\* C1: for every distal length > 200 and every kernel size, both pipelines
\* keep a sequence length >= 1 through every convolution and pooling stage,
\* and forward() returns a tensor of shape [batch, n_class].
C1_ShapeInvariance ==
    (seq_len > 200 /\ failed_at \notin LocalStatements) =>
        /\ ~Raised
        /\ (x_kind = "seq" => x_len >= 1)
        /\ (Returned => out_kind = "class")

\* C2: for every distal length <= 200 the distal branch of Network1 and of
\* Network2 stops at the length assertion: no convolution, pooling or residual
\* layer has been applied, forward() never returns, execution never moves
\* past the assertion, and what the distal branch raises is the AssertionError.
C2_AssertBeforeConv ==
    (pc >= 1 /\ err # "idle" /\ seq_len <= 200) =>
        /\ applied \cap (ConvNames \cup PoolNames \cup ResNames) = {}
        /\ ~Returned
        /\ (Running => Cur.op \in {"local", "assert"})
        /\ (Raised /\ failed_at \notin LocalStatements =>
                err = "AssertionError" /\ failed_at = "assert_len")

\* the assertion has fired in Network2, after the local layers ran
C2_Witness ==
    /\ seq_len = 200 /\ model_no = 2 /\ err = "AssertionError"
    /\ "lin_layers" \in applied

\* C3: the configuration local_radius=5, local_order=1 (11 local positions),
\* distal_radius=50, model_no=2 gives a distal tensor of 101 positions on
\* which forward() completes and returns an output.
C3_DefaultConfigAccepted ==
    (model_no = 2 /\ distal_radius = 50 /\ distal_order = 1 /\ no_of_cat = 11
        /\ err # "idle") =>
        /\ seq_len = 101
        /\ ~Raised

----------------------------------------------------------------------------
(* Claims on the residual block                                            *)

\* C5 as stated: the block's output length is its input length minus a
\* reduction that depends on kernel size, stride, dilation and padding only
\* (the same for every input length on which the block returns), and is the
\* input length itself for kernel_size=3, stride=1, dilation=1, padding=1.
C5_ReductionIndependentOfLength ==
    rb_pc = "done" =>
        /\ \A L \in 1..MaxResLen :
              ResBlockOk(L, rb_k, rb_s, rb_p, rb_d) =>
                  L - ResBlockLen(L, rb_k, rb_s, rb_p, rb_d) = rb_x - rb_res
        /\ (rb_k = 3 /\ rb_s = 1 /\ rb_d = 1 /\ rb_p = 1 => rb_res = rb_x)

\* C5 amended: whenever the block returns, its output has the length its two
\* convolutions produce; with stride 1 that is the input length minus
\* 2*(dilation*(kernel_size-1) - 2*padding), which does not depend on the
\* input length; with kernel_size=3, stride=1, dilation=1, padding=1 the
\* block returns for every input length and keeps the length.
C5_ResBlockLength ==
    /\ (rb_pc = "done" => rb_res = rb_out)
    /\ (rb_pc = "done" /\ rb_s = 1 =>
            rb_res = rb_x - 2 * (rb_d * (rb_k - 1) - 2 * rb_p))
    /\ (rb_k = 3 /\ rb_s = 1 /\ rb_d = 1 /\ rb_p = 1 =>
            /\ rb_pc # "raised"
            /\ (rb_pc = "done" => rb_res = rb_x))

C5_Witness ==
    /\ rb_pc = "done" /\ rb_k = 3 /\ rb_s = 1 /\ rb_d = 1 /\ rb_p = 1
    /\ rb_x = MaxResLen /\ rb_res = MaxResLen /\ rb_variant = "ResBlock2"

----------------------------------------------------------------------------
(* Claims on the fusion                                                    *)

ExpOut == [i \in Classes |-> Exp(out[i])]

\* C4: the returned tensor of Network1 and Network2 is a vector of
\* log-probabilities: its exponentials sum to 1 within SumTolerance, no entry
\* is -inf and every entry is >= log(1e-9), also when the softmax of a branch
\* puts all its mass on one class.
C4_LogProbabilities ==
    fus_pc = "done" =>
        /\ Sum(ExpOut) - Scale <= SumTolerance
        /\ Scale - Sum(ExpOut) <= SumTolerance
        /\ \A i \in Classes : ~IsNegInf(out[i]) /\ Exp(out[i]) >= ClampMin

\* both distal softmaxes and the local softmax are one-hot on the same class:
\* the mean is 0 on another class and the clamp has raised it to the floor
C4_Witness ==
    /\ fus_pc = "done" /\ fus_model = 2
    /\ local_out[1] = Scale /\ distal_out[1] = Scale
    /\ local_out[2] = 0 /\ distal_out[2] = 0
    /\ Exp(out[2]) = ClampMin

----------------------------------------------------------------------------
(* Claims on the search driver                                             *)

TwoRungSchedule == epochs = 3 /\ grace_period = 1

LossesOf(rec) == {rec[u] : u \in Recorded(rec)}

\* the k-th smallest loss recorded in a rung
KthLoss(rec, k) ==
    CHOOSE v \in LossesOf(rec) :
        /\ Cardinality({u \in Recorded(rec) : rec[u] < v}) < k
        /\ k <= Cardinality({u \in Recorded(rec) : rec[u] <= v})

\* loss l is strictly above the median of the losses recorded in rec
WorseThanMedian(l, rec) ==
    LET n == Cardinality(Recorded(rec))
    IN  /\ n > 0
        /\ 2 * l > KthLoss(rec, (n - 1) \div 2 + 1) + KthLoss(rec, n \div 2 + 1)

\* C6 as stated: on the 2-rung schedule with grace_period 1, a trial whose
\* loss lies in the bottom half of a rung (strictly worse than the rung's
\* median once the three trials have ended, none in error) never reaches
\* the iteration cap
C6_BottomHalfStopped ==
    (TwoRungSchedule /\ AllEnded /\ \A u \in Trials : status[u] # "ERRORED") =>
        \A t \in Trials, k \in DOMAIN rungs :
            (rungs[k][t] # 0 /\ WorseThanMedian(rungs[k][t], rungs[k]))
                => status[t] # "COMPLETED"

\* C6 amended: a running trial whose report at a rung is strictly worse than
\* the median of the losses recorded at that rung before it is stopped at
\* that report, before the iteration cap
C6_WorseThanRecordedStopped ==
    [][\A t \in Trials, k \in DOMAIN rungs :
          (/\ status[t] = "RUNNING"
           /\ rungs[k][t] = 0
           /\ rungs'[k][t] # 0
           /\ iter'[t] < epochs
           /\ WorseThanMedian(rungs'[k][t], rungs[k]))
              => status'[t] = "EARLY_STOPPED"]_vars

\* on the 2-rung schedule a trial was stopped by the scheduler at the second
\* rung, its counter below 3, while another trial ran to the cap
C6_Witness ==
    /\ TwoRungSchedule
    /\ \E t, u \in Trials :
          /\ status[t] = "EARLY_STOPPED"
          /\ iter[t] = 2
          /\ after_min_loss[t] < 3
          /\ \E w \in Trials : w # t /\ rungs[1][w] # 0
                                /\ rungs[1][w] < rungs[1][t]
          /\ status[u] = "COMPLETED"

\* C7: a report whose counter is 3 or more ends the trial at that report,
\* and no trial whose counter is 3 or more runs a further iteration
C7_CounterStops ==
    [][\A t \in Trials :
          /\ (iter'[t] # iter[t] /\ after_min_loss'[t] >= 3)
                => status'[t] \in {"EARLY_STOPPED", "COMPLETED"}
          /\ iter'[t] # iter[t] => after_min_loss[t] < 3]_vars

\* a trial was stopped by the counter before the grace period had elapsed
\* and while no other trial had been recorded in any rung
C7_Witness ==
    \E t \in Trials :
        /\ status[t] = "EARLY_STOPPED"
        /\ after_min_loss[t] = 3
        /\ iter[t] < grace_period
        /\ \A k \in DOMAIN rungs : Recorded(rungs[k]) = {}

\* C8: a status changes only from PENDING to RUNNING or from RUNNING to an
\* end state; a trial that tune.run takes from the checkpoint of an earlier
\* run enters this run with the end state recorded there
C8_StatusTransitions ==
    [][\A t \in Trials :
          status'[t] # status[t] =>
              \/ status[t] = "PENDING" /\ status'[t] = "RUNNING"
              \/ status[t] = "RUNNING" /\ status'[t] \in EndStates
              \/ /\ drv_pc = "tune_call"
                 /\ t \in resumed' \ resumed
                 /\ status'[t] = prior[t]
                 /\ prior[t] \in EndStates]_vars

\* the three end states occur in one run, which has returned from tune.run
C8_Witness ==
    /\ drv_pc # "tune_run"
    /\ \E t, u, w \in Trials :
          /\ status[t] = "COMPLETED"
          /\ status[u] = "EARLY_STOPPED"
          /\ status[w] = "ERRORED"

\* no trial waits for something that cannot happen: a pending trial waits
\* only while another runs, a running trial can take its next step
NoneStuck ==
    \A u \in Trials :
        /\ status[u] = "PENDING" =>
              \/ \E w \in Trials : status[w] = "RUNNING"
              \/ ENABLED (\E v \in Trials : StartTrial(v))
        /\ status[u] = "RUNNING" =>
              ENABLED (TrialFails(u) \/ \E l \in 1..MaxLoss : Report(u, l))

\* C9: the step in which a trial fails marks it ERRORED and changes no
\* sibling, and after it, while tune.run executes, no sibling is stuck
C9_SiblingsProceed ==
    [][/\ \A t \in Trials :
             (status[t] = "RUNNING" /\ iter'[t] = iter[t]
                                    /\ status'[t] # "RUNNING")
                 => /\ status'[t] = "ERRORED"
                    /\ \A u \in Trials \ {t} :
                          /\ status'[u] = status[u]
                          /\ iter'[u] = iter[u]
                          /\ trial_radius'[u] = trial_radius[u]
                    /\ drv_pc' = "tune_run"
       /\ (drv_pc' = "tune_run" /\ \E t \in Trials : status'[t] = "ERRORED")
             => NoneStuck']_vars

\* a trial failed while one sibling was running and one was pending, and
\* all of them have ended, the siblings not in error
C9_Witness ==
    /\ AllEnded
    /\ \E t \in Trials :
          /\ status[t] = "ERRORED"
          /\ iter[t] = 0
          /\ \A u \in Trials \ {t} : status[u] \in {"COMPLETED", "EARLY_STOPPED"}

\* C10 as stated: when a trial has ended ERRORED and another has completed,
\* main() goes on from tune.run to ray.shutdown and the total-time print
C10_DriverSurvivesTrialError ==
    (/\ AllEnded
     /\ \E t \in Trials : status[t] = "ERRORED"
     /\ \E t \in Trials : status[t] = "COMPLETED"
     /\ drv_pc # "tune_run")
        => drv_pc \in {"shutdown", "print_total", "done"}

\* the process has ended
Ended == exit_code # -1

GpuRequested == ray_ngpus > 0 \/ gpu_per_trial > 0

\* C11: when every trial has ended ERRORED, main() never returns normally
\* and the process ends with a non-zero exit status
C11_AllErroredNonZero ==
    (\A t \in Trials : status[t] = "ERRORED") =>
        /\ drv_pc \notin {"shutdown", "print_total", "done"}
        /\ Ended => exit_code > 0

\* the process has ended after a run in which all trials failed
C11_Witness ==
    /\ Ended
    /\ \A t \in Trials : status[t] = "ERRORED"

C13_AbortBeforePool ==
    (GpuRequested /\ ~cuda_available) =>
        /\ ~ray_up
        /\ drv_pc \in {"gpu_check", "exited"}
        /\ \A t \in Trials : status[t] = "PENDING" /\ trial_radius[t] = 0

\* the process ended at the GPU check although only gpu_per_trial asked
\* for a GPU
C13_Witness ==
    /\ Ended
    /\ drv_pc = "exited"
    /\ ray_ngpus = 0
    /\ gpu_per_trial > 0

\* C14 as stated: the run that ends at the GPU check has a non-zero exit
\* status
C14_GpuErrorNonZero ==
    (Ended /\ drv_pc = "exited") => exit_code # 0

\* C15: with --rerun_failed the run takes the trials of the checkpoint,
\* launches every trial recorded as ERRORED before tune.run is over and
\* launches no trial recorded as COMPLETED or EARLY_STOPPED, which keeps
\* its status; without --rerun_failed no trial comes from the checkpoint
C15_RerunErroredOnly ==
    /\ ~rerun_failed => resumed = {}
    /\ (rerun_failed /\ drv_pc \notin {"gpu_check", "exited", "ray_init",
                                       "tune_call"}
                     /\ prior # NoCheckpoint) =>
          /\ resumed = Trials
          /\ \A t \in Trials :
                /\ prior[t] \in {"COMPLETED", "EARLY_STOPPED"} =>
                      t \notin started /\ status[t] = prior[t]
                /\ prior[t] = "ERRORED" =>
                      /\ status[t] = "ERRORED" => t \in started
                      /\ AllEnded => t \in started

\* a resumed run is over: the errored trial ran again and completed, the
\* trials that had completed or were stopped early did not run
C15_Witness ==
    /\ rerun_failed
    /\ drv_pc = "done"
    /\ \E t, u, w \in Trials :
          /\ prior[t] = "ERRORED" /\ t \in started /\ status[t] = "COMPLETED"
          /\ prior[u] = "COMPLETED" /\ u \notin started
          /\ prior[w] = "EARLY_STOPPED" /\ w \notin started
                                      /\ status[w] = "EARLY_STOPPED"

\* C16 as stated: the bounds are (v, v) for one given value v and the
\* first two values otherwise, and with one value every trial gets v
C16_BoundsAndFixedValue ==
    /\ lu_pc # "raised"
    /\ lu_pc \in {"sample", "done"} =>
          lu_bounds = IF Len(lu_given) = 1 THEN <<lu_given[1], lu_given[1]>>
                      ELSE <<lu_given[1], lu_given[2]>>
    /\ Len(lu_given) = 1 =>
          \A t \in Trials \ Unsampled :
              lu_sample[t] = [v |-> lu_given[1], ulp |-> 0]

\* C16 amended: the same bounds; with one value v every trial gets one and
\* the same value, which is v up to the rounding of the sampler
C16_BoundsAndRoundedValue ==
    /\ lu_pc # "raised"
    /\ lu_pc \in {"sample", "done"} =>
          lu_bounds = IF Len(lu_given) = 1 THEN <<lu_given[1], lu_given[1]>>
                      ELSE <<lu_given[1], lu_given[2]>>
    /\ Len(lu_given) = 1 =>
          \A t, u \in Trials \ Unsampled :
              /\ lu_sample[t] = lu_sample[u]
              /\ lu_sample[t].v = lu_given[1]
              /\ lu_sample[t].ulp \in (0 - MaxUlp)..MaxUlp

\* every trial has its value, from one given value and a sampler that does
\* not return it exactly
C16_Witness ==
    /\ lu_pc = "done"
    /\ Len(lu_given) = 1
    /\ rounding[lu_given[1]] # 0
    /\ Unsampled = {}

RunningTrials == {t \in Trials : status[t] = "RUNNING"}

\* C17: the requests of the running trials, summed, stay within the CPUs
\* and GPUs given to ray.init, and a trial starts only into a budget that
\* still holds its whole request
C17_WithinBudget ==
    [][/\ Cardinality(RunningTrials') * cpu_per_trial <= ray_ncpus
       /\ Cardinality(RunningTrials') * gpu_per_trial <= ray_ngpus * 100
       /\ \A t \in Trials :
             (status[t] = "PENDING" /\ status'[t] = "RUNNING") =>
                 /\ Cardinality(RunningTrials) * cpu_per_trial + cpu_per_trial
                       <= ray_ncpus
                 /\ Cardinality(RunningTrials) * gpu_per_trial + gpu_per_trial
                       <= ray_ngpus * 100]_vars

\* one trial runs and the next waits for GPU share although CPUs are free
C17_Witness ==
    /\ drv_pc = "tune_run"
    /\ Cardinality(RunningTrials) = 1
    /\ \E t \in Trials : status[t] = "PENDING"
    /\ 2 * cpu_per_trial <= ray_ncpus
    /\ 2 * gpu_per_trial > ray_ngpus * 100
    /\ \E t \in Trials : status[t] \in EndStates /\ iter[t] > 0

\* every running trial is below the iteration cap and below the counter
\* limit, and no trial is beyond the cap
BoundedReports ==
    \A t \in Trials :
        /\ iter[t] <= epochs
        /\ status[t] = "RUNNING" => iter[t] < epochs /\ after_min_loss[t] < 3

\* the request of one trial fits into what ray.init was given
Feasible ==
    cpu_per_trial <= ray_ncpus /\ gpu_per_trial <= ray_ngpus * 100

StepsLeft(t) ==
    IF status[t] = "PENDING" THEN epochs + 2
    ELSE IF status[t] = "RUNNING" THEN epochs + 1 - iter[t]
    ELSE 0

RECURSIVE StepsLeftUpTo(_)
StepsLeftUpTo(n) == IF n = 0 THEN 0 ELSE StepsLeft(n) + StepsLeftUpTo(n - 1)

SomeTrialCanStep ==
    ENABLED (\E t \in Trials :
                \/ StartTrial(t)
                \/ TrialFails(t)
                \/ \E l \in 1..MaxLoss : Report(t, l))

C19_Reproducible ==
    (seed_arg >= 0 /\ \A r \in Runs : run_pc[r] = "done") =>
        trajectory[1] = trajectory[2]

\* C21: a trial recorded at a rung does not run past the rung's milestone
\* before another trial is recorded at the same rung
C21_FirstReporterWaits ==
    \A t \in Trials, k \in DOMAIN rungs :
        (rungs[k][t] # 0 /\ iter[t] > Milestone(k))
            => \E u \in Trials \ {t} : rungs[k][u] # 0

\* C21 amended: a trial is not suspended at a rung; the first trial to report
\* at a rung, below the iteration cap and with its counter below 3, is still
\* running after that report, with no peer recorded
C21_FirstReporterContinues ==
    [][\A t \in Trials, k \in DOMAIN rungs :
          (/\ status[t] = "RUNNING"
           /\ rungs[k][t] = 0
           /\ rungs'[k][t] # 0
           /\ Recorded(rungs[k]) = {}
           /\ iter'[t] < epochs
           /\ after_min_loss'[t] < stop_after_min_loss)
              => status'[t] = "RUNNING"]_vars

\* a trial alone at the first rung is running beyond the rung's milestone
C21_Witness ==
    \E t \in Trials :
        /\ 0 \in DOMAIN rungs
        /\ Recorded(rungs[0]) = {t}
        /\ iter[t] > Milestone(0)
        /\ status[t] = "RUNNING"
        /\ \A u \in Trials \ {t} : iter[u] = 0

\* C22: the local branch skips whichever side is empty: with no categorical
\* position and a continuous feature, or with no continuous feature and
\* categorical positions, the local statements raise nothing
C22_EmptySideSkipped ==
    (\/ (no_of_cat = 0 /\ no_of_cont > 0)
     \/ (no_of_cont = 0 /\ no_of_cat > 0))
        => failed_at \notin LocalStatements

\* the branch softmaxes mixed with weights 1/nl for the local branch and 1/nd
\* for each distal sub-pipeline
Mixed(nl, nd) ==
    [i \in Classes |-> Softmax(local_logits)[i] \div nl
                       + Softmax(distal_logits)[i] \div nd
                       + Softmax(distal2_logits)[i] \div nd]

Near(a, b) == a - b <= SumTolerance /\ b - a <= SumTolerance

\* C23: in the local+distal model the value passed to clamp and log gives
\* the local softmax and each of the two distal softmaxes the same weight,
\* one third each
C23_EqualWeightPerBranch ==
    (fus_model = 2 /\ fus_pc = "done") =>
        \A i \in Classes :
            Exp(out[i]) > ClampMin => Near(Exp(out[i]), Mixed(3, 3)[i])

\* C23 amended: the local softmax weighs as much as the distal branch's
\* distribution, the mean of the two distal softmaxes: one half for the
\* local branch, one quarter for each distal sub-pipeline
C23_LocalHalfDistalQuarter ==
    (fus_model = 2 /\ fus_pc = "done") =>
        \A i \in Classes :
            /\ Exp(out[i]) >= ClampMin
            /\ Near(Exp(out[i]), Mixed(2, 4)[i])

\* the local branch is near-certain of a class that both distal
\* sub-pipelines give less than a tenth
C23_Witness ==
    /\ fus_model = 2
    /\ fus_pc = "done"
    /\ \E i \in Classes :
          /\ Softmax(local_logits)[i] > 9 * (Scale \div 10)
          /\ Softmax(distal_logits)[i] < Scale \div 10
          /\ Softmax(distal2_logits)[i] < Scale \div 10
          /\ Exp(out[i]) > ClampMin

Min(a, b) == IF a <= b THEN a ELSE b

\* C24: for every kernel size, stride, dilation and padding, once the two
\* convolutions have run, the skip input is cut to the shorter of the input
\* and output lengths, the add is between two equal lengths, and the block
\* raises only where a convolution rejects its input
C24_SkipMatchesOutput ==
    /\ (rb_pc \in {"add", "done"} =>
            /\ SkipLen(rb_x, rb_out) = Min(rb_x, rb_out)
            /\ SkipLen(rb_x, rb_out) = rb_out)
    /\ (rb_pc = "raised" => ~LayerOk(rb_x, rb_k, rb_s, rb_p, rb_d))

\* the step executes the statement at pc
Executes == pc' # pc \/ err' # err

\* C25: for every distal length L > 200, odd or even, conv1 receives exactly
\* the 201 positions L//2-100 .. L//2+100, both inside 0 .. L-1, and conv1_2
\* receives all L positions
C25_CentredWindow ==
    [][(Running /\ Cur.op = "conv" /\ Executes) =>
          /\ (Cur.name = "conv1" =>
                 /\ seq_len > 200
                 /\ CropLo >= 0
                 /\ CropHi - 1 <= seq_len - 1
                 /\ CropHi - CropLo = 201
                 /\ InputLen(Cur) = 201)
          /\ (Cur.name = "conv1_2" =>
                 /\ seq_len > 200
                 /\ InputLen(Cur) = seq_len)]_vars

\* both first convolutions have run on an even length above 201
C25_Witness ==
    /\ {"conv1", "conv1_2"} \subseteq applied
    /\ seq_len > 201
    /\ seq_len % 2 = 0
    /\ kernel_size = 3

\* C26: for every length > 200 and every kernel size, a stack of two
\* residual blocks that is reached returns, with the length of the saved skip
\* input; the assertion jump_input.shape[2] >= distal_out.shape[2] that
\* follows holds and the slice jump_input[:,:,0:distal_out.shape[2]] keeps
\* every position of the skip input
C26_StackKeepsSkipLength ==
    [][(Running /\ Executes) =>
          /\ (Cur.op = "rbs" =>
                 /\ seq_len > 200
                 /\ x_len = jump_len
                 /\ err' = "none"
                 /\ x_len' = jump_len)
          /\ (Cur.op = "skipadd" =>
                 /\ jump_len >= x_len
                 /\ SliceLen(jump_len, 0, x_len) = jump_len
                 /\ err' = "none"
                 /\ x_len' = jump_len)]_vars

\* forward() has returned past the four stacks and their skip adds on a
\* length above 200
C26_Witness ==
    /\ Returned
    /\ ResNames \subseteq applied
    /\ seq_len > 200

\* C27: in every sampled configuration the second hidden size is half the
\* first hidden size of the same trial (rounded down) when the first value
\* given to --local_hidden2_size is not positive, else one of the values
\* given; and it is a positive integer
C27_Hidden2Positive ==
    \A t \in sampled :
        LET c == trial_hidden[t] IN
        /\ c.local_hidden1_size \in Range(local_hidden1_size)
        /\ (local_hidden2_size[1] <= 0 =>
                c.local_hidden2_size = c.local_hidden1_size \div 2)
        /\ (local_hidden2_size[1] > 0 =>
                c.local_hidden2_size \in Range(local_hidden2_size))
        /\ c.local_hidden2_size > 0

=============================================================================
